---- MODULE Spec2Model ----
(***************************************************************************)
(* The trading loop of generator.py (run_live_loop) and the pure helpers   *)
(* it uses, as a state machine.                                            *)
(*                                                                         *)
(* Units.  Money (cash, prices) is an integer number of tenths of a rupee: *)
(* R(150) is Rs 150.0 and 1994 is Rs 199.4.  Fractions delta of the band   *)
(* table are in 1/10000 (0.0033 is 33).  Percentages are in hundredths of  *)
(* a percent (-0.29 % is -29).  Time is in half seconds, the floor of the  *)
(* loop's sleep (LOOP_SLEEP = max(0.5, LOOP_FREQ_SECONDS)).  Python floats *)
(* are modelled by exact arithmetic on these fixed-point values.           *)
(*                                                                         *)
(* Timestamps are kept relative: instead of placed_at and ENTRY_DATE the   *)
(* state holds the time elapsed since each of them, which is all the code  *)
(* ever reads (current_ist - placed_at, now_ist() - ENTRY_DATE).           *)
(***************************************************************************)
EXTENDS Integers, Sequences, FiniteSets, TLC

VARIABLES
    pc,                 \* position of run_live_loop
    CASH,               \* generator.py:85
    SHARES_HELD,        \* generator.py:86
    BUY_PRICE,          \* generator.py:87
    ENTRY_DATE,         \* generator.py:88  None, or <<time elapsed since ENTRY_DATE>>
    PEAK_RETURN,        \* generator.py:89  None, or <<a percentage>>
    PENDING_ORDER,      \* generator.py:92  None, or <<[side, qty, price]>>
    sincePlaced,        \* time elapsed since PENDING_ORDER["placed_at"]
    SHUTDOWN,           \* generator.py:94
    market_open,        \* the wall clock has passed 09:15 IST
    quote,              \* local of the tick: None or <<the quote payload>>
    last_price,         \* local of the tick: None or <<price>>
    prev_close,         \* local of the tick: None or <<price>>
    hist_called,        \* get_historical_candle_data was called in this tick
    exit_reason,        \* local of the tick: "none" or the exit rule that fired
    seen_max,           \* None, or <<the largest current_return of the ticks since entry>>
    trade_happened_this_run,
    calls,              \* the place_order invocations so far: [side, qty, ok]
    tick_calls,         \* place_order invocations in the current tick
    rows,               \* the trade rows emitted so far (sheet or log)
    bought_at,          \* None, or <<reference price of the BUY fill that opened the position>>
    last_note,          \* None, or <<tag of the last send_telegram>>
    note_cash,          \* None, or <<final_capital of the last send_telegram>>
    cash_fetch,         \* get_cash_balance in this tick or at startup: "none", "ok", "raised"
    cash_at_buy,        \* None, or <<CASH when the BUY of the open round trip was placed>>
    fills,              \* the orders booked as filled so far: [side, qty, after]
    order_age,          \* local of the tick (age): None or <<age of the order it processed>>
    fn_arg,             \* input of the pure function under check
    fn_res              \* None, or <<its result>>

vars == <<pc, CASH, SHARES_HELD, BUY_PRICE, ENTRY_DATE, PEAK_RETURN, PENDING_ORDER,
          sincePlaced, SHUTDOWN, market_open, quote, last_price, prev_close, hist_called,
          exit_reason, seen_max, trade_happened_this_run, calls, tick_calls, rows, bought_at, last_note,
          note_cash, cash_fetch, cash_at_buy, fills, order_age, fn_arg, fn_res>>

None == <<>>
Some(x) == <<x>>

Max(a, b) == IF a >= b THEN a ELSE b
Min(a, b) == IF a <= b THEN a ELSE b
Abs(a) == IF a >= 0 THEN a ELSE -a
\* the least integer not below a / b, b > 0
CeilDiv(a, b) == -((-a) \div b)

\* n rupees, in tenths of a rupee
R(n) == n * 10

(***************************************************************************)
(* Strategy constants (generator.py:59-64), in hundredths of a percent,    *)
(* and the pending-order ages (generator.py:579, 582), in half seconds.    *)
(***************************************************************************)
BUY_THRESHOLD == -29
PROFIT_TARGET == 400
STOP_LOSS == -100
TRAILING_DRAWDOWN == 30
MIN_DAYS == 0
MAX_DAYS == 5
FILL_AGE == 4
EXPIRE_AGE == 240
\* half seconds in a day (86400.0 seconds, generator.py:669)
DAY == 2 * 86400

(***************************************************************************)
(* Bounds of the model.                                                    *)
(***************************************************************************)
\* place_order invocations in one run; the run's end time comes once reached
MaxOrders == 3
\* longest ordinary sleep between two ticks, in half seconds
MaxSleep == 2
\* the elapsed time since ENTRY_DATE is counted up to this (a run ends at
\* END_TIME_IST of the day it starts, far below MAX_DAYS)
HeldCap == 1
\* the elapsed time since placed_at is counted exactly up to this; a larger
\* one that is not above EXPIRE_AGE is kept as this (the code tells ages
\* apart only at FILL_AGE, below it, and at EXPIRE_AGE)
AgeCap == 5

(***************************************************************************)
(* Dynamic delta table, generator.py:180-201.  lo, hi in rupees.           *)
(***************************************************************************)
CASH_DELTA_BANDS == <<
    [lo |-> 0,       hi |-> 1000,     delta |-> 78],
    [lo |-> 1001,    hi |-> 3000,     delta |-> 53],
    [lo |-> 3001,    hi |-> 5000,     delta |-> 44],
    [lo |-> 5001,    hi |-> 10000,    delta |-> 40],
    [lo |-> 10001,   hi |-> 50000,    delta |-> 33],
    [lo |-> 50001,   hi |-> 100000,   delta |-> 28],
    [lo |-> 100001,  hi |-> 500000,   delta |-> 23],
    [lo |-> 500001,  hi |-> 1000000,  delta |-> 24],
    [lo |-> 1000001, hi |-> 10000000, delta |-> 25] >>

FALLBACK_DELTA == 30

InBand_exclusive(c, b) == R(b.lo) <= c /\ c < R(b.hi)

\* lo <= c <= hi, generator.py:199
InBand(c, b) == R(b.lo) <= c /\ c <= R(b.hi)

RECURSIVE ScanBands(_, _)
ScanBands(c, i) ==
    IF i > Len(CASH_DELTA_BANDS) THEN FALLBACK_DELTA
    ELSE IF InBand(c, CASH_DELTA_BANDS[i]) THEN CASH_DELTA_BANDS[i].delta
    ELSE ScanBands(c, i + 1)

get_delta_for_cash(cash_amount) == ScanBands(cash_amount, 1)

(***************************************************************************)
(* compute_shares_to_buy, generator.py:369-382:                            *)
(*   qty = floor(cash / (price * (1 + delta))), 0 for a missing or         *)
(*   non-positive price, never negative.                                   *)
(* FloorOverOnePlus(c, d) is floor(c / (1 + d/10000)) = floor(c*10000/k)   *)
(* with k = 10000 + d, split as c = (c \div k)*k + c % k so that no        *)
(* intermediate value leaves 32 bits; floor(floor(x)/p) = floor(x/p).      *)
(***************************************************************************)
FloorOverOnePlus(c, d) ==
    (c \div (10000 + d)) * 10000 + ((c % (10000 + d)) * 10000) \div (10000 + d)

compute_shares_to_buy_roundup(cash_amount, price) ==
    IF price = None \/ price[1] <= 0 THEN 0
    ELSE Max(0, CeilDiv(FloorOverOnePlus(cash_amount, get_delta_for_cash(cash_amount)),
                        price[1]))

compute_shares_to_buy_nobuffer(cash_amount, price) ==
    IF price = None \/ price[1] <= 0 THEN 0
    ELSE Max(0, cash_amount \div price[1])

compute_shares_to_buy(cash_amount, price) ==
    IF price = None \/ price[1] <= 0 THEN 0
    ELSE LET delta == get_delta_for_cash(cash_amount)
             qty == FloorOverOnePlus(cash_amount, delta) \div price[1]
         IN  Max(0, qty)

(***************************************************************************)
(* Values of a broker payload field.  <<"none">> is a missing key or null, *)
(* <<"num", n>> a number, <<"str", n>> the decimal string of n ("0" for    *)
(* n = 0), <<"zstr">> the string "0.0", <<"junk">> a non-numeric string.   *)
(***************************************************************************)
VNone == <<"none">>
VNum(n) == <<"num", n>>
VStr(n) == <<"str", n>>
VZStr == <<"zstr">>
VJunk == <<"junk">>

\* Python truthiness, as the `or` chains of extract_last_price read it
Truthy(v) ==
    \/ v[1] = "num" /\ v[2] # 0
    \/ v[1] \in {"str", "zstr", "junk"}

\* results of a helper: a value, None, or an exception leaving it
Val(x) == <<"val", x>>
RNone == <<"rnone">>
Raise == <<"raise">>

(***************************************************************************)
(* safe_float, generator.py:357-361.  default is None or Some(number);     *)
(* float(None) in the except branch raises out of safe_float.              *)
(***************************************************************************)
safe_float(x, default) ==
    IF x[1] \in {"num", "str"} THEN Val(x[2])
    ELSE IF x[1] = "zstr" THEN Val(0)
    ELSE IF default = None THEN Raise
    ELSE Val(default[1])

\* the first truthy element of a non-empty sequence, else its last (a or b or c)
RECURSIVE OrChain(_)
OrChain(vs) ==
    IF Len(vs) = 1 \/ Truthy(Head(vs)) THEN Head(vs) ELSE OrChain(Tail(vs))

(***************************************************************************)
(* A quote is None (no quote, or not a dict) or Some(record); its ohlc is  *)
(* <<"none">>, <<"bad">> (truthy but not a dict) or <<"dict", record>>.    *)
(***************************************************************************)
NoOhlc == <<"none">>
BadOhlc == <<"bad">>
Ohlc(l, c, pc1, pc2) ==
    <<"dict", [last |-> l, close |-> c, previous_close |-> pc1, prev_close |-> pc2]>>
EmptyOhlc == [last |-> VNone, close |-> VNone, previous_close |-> VNone, prev_close |-> VNone]

\* (quote.get("ohlc") or {}): only called when the ohlc is not bad
OhlcOrEmpty(q) == IF q.ohlc[1] = "dict" THEN q.ohlc[2] ELSE EmptyOhlc

\* extract_last_price, generator.py:384-400
extract_last_price(payload) ==
    IF payload = None THEN Val(0)
    ELSE LET q == payload[1]
             top == <<q.last_price, q.last_trade_price, q.last_traded_price, q.ltp>>
         IN  IF \E i \in 1..4 : Truthy(top[i])
             THEN safe_float(OrChain(top), Some(0))
             ELSE IF q.ohlc = BadOhlc THEN Raise
             ELSE safe_float(OrChain(<<OhlcOrEmpty(q).last, OhlcOrEmpty(q).close,
                                       q.offer_price>>), Some(0))

\* v not in (None, 0, "0"), generator.py:410, 414
Present(v) == ~(v = VNone \/ v = VNum(0) \/ v = VStr(0))

\* extract_previous_close, generator.py:402-416
extract_previous_close(payload) ==
    IF payload = None THEN RNone
    ELSE LET q == payload[1]
         IN  IF Present(q.previous_close) THEN safe_float(q.previous_close, None)
             ELSE IF Present(q.prev_close) THEN safe_float(q.prev_close, None)
             ELSE IF q.ohlc = BadOhlc THEN Raise
             ELSE LET o == OhlcOrEmpty(q)
                  IN  IF Present(o.previous_close) THEN safe_float(o.previous_close, None)
                      ELSE IF Present(o.prev_close) THEN safe_float(o.prev_close, None)
                      ELSE IF Present(o.close) THEN safe_float(o.close, None)
                      ELSE RNone

(***************************************************************************)
(* A percentage is kept as an exact fraction [n, d] with d > 0, meaning    *)
(* 100 * n / d percent.  Thresholds h are in hundredths of a percent.      *)
(***************************************************************************)
Pct(n, d) == [n |-> n, d |-> d]
PctLeq(a, b) == a.n * b.d <= b.n * a.d
\* max(a, b), generator.py:681
PctMax(a, b) == IF PctLeq(b, a) THEN a ELSE b
\* a <= h and a >= h
PctLeqH(a, h) == a.n * 10000 <= h * a.d
PctGeqH(a, h) == a.n * 10000 >= h * a.d
\* abs(a - b) >= h, generator.py:693
PctGapGeqH(a, b, h) == Abs(a.n * b.d - b.n * a.d) >= CeilDiv(h * a.d * b.d, 10000)

\* (x - base) / base * 100.0, with the except branch for a zero base,
\* generator.py:363-367 and 673-676
PctChange(x, base) == IF base = 0 THEN Pct(0, 1) ELSE
                      IF base > 0 THEN Pct(x - base, base)
                      ELSE Pct(base - x, -base)

calculate_price_change_pct(current_last_price, prev) == PctChange(current_last_price, prev)

(***************************************************************************)
(* What the collaborators may answer.                                      *)
(***************************************************************************)
\* get_cash_balance: Rs 0, Rs 1000.5 (between two bands), Rs 45000
CashSet == {0, R(1000) + 5, R(45000)}
\* last prices: Rs 150.0, 199.4, 200.0, 208.0
LastSet == {R(150), 1994, 2000, 2080}
\* previous close: Rs 200.0
PrevSet == {2000}
\* a matching holding of the startup: [qty, avg]
HoldingSet == {[qty |-> 0, avg |-> 2000], [qty |-> 10, avg |-> 2000],
               [qty |-> 10, avg |-> 0]}

PlainQuote(last, prev) ==
    Some([last_price |-> last, last_trade_price |-> VNone, last_traded_price |-> VNone,
          ltp |-> VNone, offer_price |-> VNone, previous_close |-> prev,
          prev_close |-> VNone, ohlc |-> NoOhlc])

\* get_quote: nothing usable after the retries, or a quote
QuoteSet ==
    {None}
    \cup {PlainQuote(VNum(l), VNum(p)) : l \in LastSet, p \in PrevSet}
    \cup {PlainQuote(VNum(0), VNum(2000)),      \* no positive last price
          PlainQuote(VNone, VNum(2000)),
          PlainQuote(VJunk, VNum(2000)),
          PlainQuote(VNum(1994), VNone),        \* previous close from the daily bars
          PlainQuote(VNum(1994), VNum(0)),      \* a zero previous close: 0, "0.0"
          PlainQuote(VNum(1994), VZStr),
          PlainQuote(VNum(2080), VJunk)}        \* non-numeric previous close

\* get_historical_candle_data: raises, fewer than two candles, or the
\* close candles[-2][4] of the second-to-last candle
HistSet == {<<"raise">>, <<"short">>, <<"close", VNum(2000)>>, <<"close", VNum(0)>>,
            <<"close", VNum(-2000)>>, <<"close", VNone>>, <<"close", VJunk>>}

\* the sleep between two ticks: at least LOOP_SLEEP >= 0.5 s, or a stall of
\* more than EXPIRE_AGE
LongStall == EXPIRE_AGE + 1
SleepSet == (1..MaxSleep) \cup {LongStall}

\* the elapsed time since placed_at after dt more
Older(age, dt) ==
    IF dt = LongStall \/ age > EXPIRE_AGE THEN EXPIRE_AGE + 1
    ELSE Min(Max(AgeCap, FILL_AGE), age + dt)

Terminal == {"ended", "crashed"}

Init ==
    /\ pc = "startup"
    /\ CASH = 0
    /\ SHARES_HELD = 0
    /\ BUY_PRICE = 0
    /\ ENTRY_DATE = None
    /\ PEAK_RETURN = None
    /\ PENDING_ORDER = None
    /\ sincePlaced = 0
    /\ SHUTDOWN = FALSE
    /\ market_open \in BOOLEAN
    /\ quote = None
    /\ last_price = None
    /\ prev_close = None
    /\ hist_called = FALSE
    /\ exit_reason = "none"
    /\ seen_max = None
    /\ trade_happened_this_run = FALSE
    /\ calls = <<>>
    /\ tick_calls = 0
    /\ rows = <<>>
    /\ bought_at = None
    /\ last_note = None
    /\ note_cash = None
    /\ cash_fetch = "none"
    /\ cash_at_buy = None
    /\ fills = <<>>
    /\ order_age = None
    /\ fn_arg = None
    /\ fn_res = None

fn_vars == <<fn_arg, fn_res>>
position_vars == <<SHARES_HELD, BUY_PRICE, ENTRY_DATE, PEAK_RETURN>>
tick_vars == <<quote, last_price, prev_close, hist_called, exit_reason, tick_calls>>
log_vars == <<calls, rows, bought_at, seen_max, last_note, trade_happened_this_run>>
obs_vars == <<note_cash, cash_fetch, cash_at_buy, fills, order_age>>

(***************************************************************************)
(* Startup, generator.py:442-473: the initial cash (0.0 when the fetch     *)
(* raises) and the position taken from an existing holding of TICKER.      *)
(***************************************************************************)
Startup ==
    /\ pc = "startup"
    /\ \E c \in CashSet \cup {-1} :
          /\ CASH' = IF c = -1 THEN 0 ELSE c
          /\ cash_fetch' = IF c = -1 THEN "raised" ELSE "ok"
    /\ \/ UNCHANGED <<SHARES_HELD, BUY_PRICE, ENTRY_DATE>>
       \/ \E h \in HoldingSet :
             /\ SHARES_HELD' = h.qty
             /\ BUY_PRICE' = h.avg
             /\ ENTRY_DATE' = Some(0)
    /\ pc' = "top"
    /\ UNCHANGED <<PEAK_RETURN, PENDING_ORDER, sincePlaced, SHUTDOWN, market_open,
                   tick_vars, log_vars, note_cash, cash_at_buy, fills, order_age, fn_vars>>

\* on_shutdown, generator.py:729-732: the signal handler, at any moment
on_shutdown ==
    /\ pc \notin Terminal \cup {"fn"}
    /\ ~SHUTDOWN
    /\ SHUTDOWN' = TRUE
    /\ UNCHANGED <<pc, CASH, position_vars, PENDING_ORDER, sincePlaced, market_open,
                   tick_vars, log_vars, obs_vars, fn_vars>>

EndRun_silent ==
    /\ pc' = "ended"
    /\ UNCHANGED <<last_note, note_cash>>

\* the end of the run, generator.py:720-724
EndRun ==
    /\ pc' = "ended"
    /\ last_note' = IF trade_happened_this_run THEN Some("DONE") ELSE last_note
    /\ note_cash' = IF trade_happened_this_run THEN Some(CASH) ELSE note_cash

(***************************************************************************)
(* The gates at the top of the loop, generator.py:486-503.  end_reached is *)
(* int(time.time()) >= end_epoch.                                          *)
(***************************************************************************)
LoopTop ==
    /\ pc = "top"
    /\ \E end_reached \in BOOLEAN :
          /\ Len(calls) >= MaxOrders => end_reached
          /\ IF ~market_open
                THEN pc' = "sleep" /\ UNCHANGED <<last_note, note_cash>>
             ELSE IF SHUTDOWN \/ end_reached
                THEN EndRun
             ELSE pc' = "quote" /\ UNCHANGED <<last_note, note_cash>>
    /\ UNCHANGED <<CASH, position_vars, PENDING_ORDER, sincePlaced, SHUTDOWN, market_open,
                   tick_vars, calls, rows, bought_at, seen_max, trade_happened_this_run,
                   cash_fetch, cash_at_buy, fills, order_age, fn_vars>>

(***************************************************************************)
(* Quote fetch and price resolution, generator.py:505-567.  The outcome is *)
(* a skipped tick, an exception leaving run_live_loop, or the two prices.  *)
(***************************************************************************)
\* the daily-bar fallback, generator.py:547-560, from prev_close p0
HistFallback(p0, hist) ==
    IF hist[1] = "close" /\ safe_float(hist[2], None) # Raise
    THEN safe_float(hist[2], None)
    ELSE p0

NeedsFallback_always(p0) == TRUE

\* prev_close in (None, 0.0), generator.py:545
NeedsFallback(p0) == p0 = RNone \/ p0 = Val(0)

InvalidLast_negative(lp) == lp = Raise \/ lp[2] < 0

\* extract_last_price raises or last_price <= 0, generator.py:533-538
InvalidLast(lp) == lp = Raise \/ lp[2] <= 0

Unavailable_noneonly(p1) == p1 = RNone

\* prev_close is None or prev_close == 0, generator.py:562
Unavailable(p1) == p1 = RNone \/ p1 = Val(0)

FetchQuote ==
    /\ pc = "quote"
    /\ \E payload \in QuoteSet, hist \in HistSet :
          LET lp == extract_last_price(payload)
              p0 == extract_previous_close(payload)
              p1 == IF NeedsFallback(p0) THEN HistFallback(p0, hist) ELSE p0
          IN  /\ quote' = payload
              /\ IF payload = None \/ InvalidLast(lp)
                    THEN \* no quote, or a malformed one: skip the tick
                         /\ hist = <<"raise">>
                         /\ pc' = "sleep"
                         /\ UNCHANGED <<last_price, prev_close, hist_called>>
                  ELSE IF p0 = Raise
                    THEN \* safe_float(x, None) or ohlc.get raises outside any try
                         /\ hist = <<"raise">>
                         /\ pc' = "crashed"
                         /\ UNCHANGED <<last_price, prev_close, hist_called>>
                  ELSE /\ NeedsFallback(p0) \/ hist = <<"raise">>
                       /\ hist_called' = NeedsFallback(p0)
                       /\ IF Unavailable(p1)
                            THEN pc' = "sleep" /\ UNCHANGED <<last_price, prev_close>>
                            ELSE /\ pc' = "pending"
                                 /\ last_price' = Some(lp[2])
                                 /\ prev_close' = Some(p1[2])
    /\ last_note' = IF pc' = "crashed" THEN Some("ERROR") ELSE last_note
    /\ note_cash' = IF pc' = "crashed" THEN Some(CASH) ELSE note_cash
    /\ UNCHANGED <<CASH, position_vars, PENDING_ORDER, sincePlaced, SHUTDOWN, market_open,
                   exit_reason, tick_calls, calls, rows, bought_at, seen_max,
                   trade_happened_this_run, cash_fetch, cash_at_buy, fills, order_age,
                   fn_vars>>

(***************************************************************************)
(* Pending-order processing, generator.py:569-628.  age is current_ist -   *)
(* placed_at.                                                              *)
(***************************************************************************)
Filled_early(age) == age >= 1

Filled_atonce(age) == age >= 0

Filled_never(age) == FALSE

\* filled = True once age >= 2 seconds, generator.py:577-580
Filled(age) == age >= FILL_AGE

\* if filled or age > 120, generator.py:582
Resolves(age) == Filled(age) \/ age > EXPIRE_AGE

BuyFill_lastprice(o) ==
    /\ BUY_PRICE' = last_price[1]
    /\ SHARES_HELD' = o.qty
    /\ CASH' = Max(0, CASH - SHARES_HELD' * BUY_PRICE')
    /\ ENTRY_DATE' = Some(0)
    /\ PEAK_RETURN' = None
    /\ bought_at' = Some(o.price)
    /\ seen_max' = None
    /\ UNCHANGED <<rows, last_note, trade_happened_this_run>>

BuyFill_nodebit(o) ==
    /\ BUY_PRICE' = o.price
    /\ SHARES_HELD' = o.qty
    /\ CASH' = CASH
    /\ ENTRY_DATE' = Some(0)
    /\ PEAK_RETURN' = None
    /\ bought_at' = Some(o.price)
    /\ seen_max' = None
    /\ UNCHANGED <<rows, last_note, trade_happened_this_run>>

\* a BUY deemed filled, generator.py:585-592
BuyFill(o) ==
    /\ BUY_PRICE' = o.price
    /\ SHARES_HELD' = o.qty
    /\ CASH' = Max(0, CASH - SHARES_HELD' * BUY_PRICE')
    /\ ENTRY_DATE' = Some(0)
    /\ PEAK_RETURN' = None
    /\ bought_at' = Some(o.price)
    /\ seen_max' = None
    /\ UNCHANGED <<rows, last_note, trade_happened_this_run>>

ResultText(profit_amt) ==
    IF profit_amt > 0 THEN "SUCCESS" ELSE IF profit_amt < 0 THEN "LOSS" ELSE "BREAKEVEN"

\* the values of the appended row, generator.py:603-613 (the two-decimal
\* formatting keeps tenths of a rupee as they are; pnl_pct before formatting)
TradeRow(buy, sell, shares, pnl, cash) ==
    [buy_price |-> buy, sell_price |-> sell, shares |-> shares, pnl_amt |-> pnl,
     pnl_pct |-> PctChange(sell, buy), final_capital |-> cash]

SellFill_keepposition(o) ==
    LET proceeds == SHARES_HELD * o.price
        profit_amt == proceeds - SHARES_HELD * BUY_PRICE
    IN  /\ CASH' = CASH + proceeds
        /\ rows' = Append(rows, TradeRow(BUY_PRICE, o.price, SHARES_HELD, profit_amt, CASH'))
        /\ last_note' = Some(ResultText(profit_amt))
        /\ SHARES_HELD' = 0
        /\ BUY_PRICE' = BUY_PRICE
        /\ ENTRY_DATE' = ENTRY_DATE
        /\ PEAK_RETURN' = None
        /\ trade_happened_this_run' = TRUE
        /\ bought_at' = None
        /\ seen_max' = None

\* a SELL deemed filled, generator.py:593-625
SellFill(o) ==
    LET proceeds == SHARES_HELD * o.price
        profit_amt == proceeds - SHARES_HELD * BUY_PRICE
    IN  /\ CASH' = CASH + proceeds
        /\ rows' = Append(rows, TradeRow(BUY_PRICE, o.price, SHARES_HELD, profit_amt, CASH'))
        /\ last_note' = Some(ResultText(profit_amt))
        /\ SHARES_HELD' = 0
        /\ BUY_PRICE' = 0
        /\ ENTRY_DATE' = None
        /\ PEAK_RETURN' = None
        /\ trade_happened_this_run' = TRUE
        /\ bought_at' = None
        /\ seen_max' = None

\* the fill booked for the order, generator.py:585-625
Fill(o) == [side |-> o.side, qty |-> o.qty, after |-> Len(calls)]

\* the branch of generator.py:582-625 the pending order takes
Booked(side) ==
    /\ PENDING_ORDER # None
    /\ Filled(sincePlaced)
    /\ PENDING_ORDER[1].side = side
    /\ IF side = "BUY" THEN SHARES_HELD = 0 ELSE SHARES_HELD > 0

ProcessPending ==
    /\ pc = "pending"
    /\ IF PENDING_ORDER = None \/ ~Resolves(sincePlaced)
         THEN UNCHANGED <<CASH, position_vars, PENDING_ORDER, sincePlaced, log_vars>>
         ELSE LET o == PENDING_ORDER[1]
              IN  /\ PENDING_ORDER' = None
                  /\ sincePlaced' = 0
                  /\ UNCHANGED calls
                  /\ IF Filled(sincePlaced) /\ o.side = "BUY" /\ SHARES_HELD = 0
                       THEN BuyFill(o)
                     ELSE IF Filled(sincePlaced) /\ o.side = "SELL" /\ SHARES_HELD > 0
                       THEN SellFill(o)
                     ELSE UNCHANGED <<CASH, position_vars, rows, bought_at, seen_max,
                                      last_note, trade_happened_this_run>>
    /\ fills' = IF Booked("BUY") \/ Booked("SELL")
                   THEN Append(fills, Fill(PENDING_ORDER[1])) ELSE fills
    \* send_telegram(CASH, result_text), generator.py:619
    /\ note_cash' = IF Booked("SELL") THEN Some(CASH') ELSE note_cash
    /\ cash_at_buy' = IF Booked("SELL") THEN None ELSE cash_at_buy
    \* age = (current_ist - placed_at).total_seconds(), generator.py:575
    /\ order_age' = IF PENDING_ORDER = None THEN None ELSE Some(sincePlaced)
    /\ pc' = "buy"
    /\ UNCHANGED <<SHUTDOWN, market_open, tick_vars, cash_fetch, fn_vars>>

(***************************************************************************)
(* BUY logic, generator.py:630-663.                                        *)
(***************************************************************************)
BuyGuard_noshares ==
    /\ PENDING_ORDER = None
    /\ PctLeqH(calculate_price_change_pct(last_price[1], prev_close[1]), BUY_THRESHOLD)

BuyGuard_nopending ==
    /\ SHARES_HELD = 0
    /\ PctLeqH(calculate_price_change_pct(last_price[1], prev_close[1]), BUY_THRESHOLD)

BuyGuard_deeper ==
    /\ SHARES_HELD = 0
    /\ PENDING_ORDER = None
    /\ PctLeqH(calculate_price_change_pct(last_price[1], prev_close[1]), BUY_THRESHOLD - 10)

\* generator.py:631
BuyGuard ==
    /\ SHARES_HELD = 0
    /\ PENDING_ORDER = None
    /\ PctLeqH(calculate_price_change_pct(last_price[1], prev_close[1]), BUY_THRESHOLD)

Order(side, qty, price) == [side |-> side, qty |-> qty, price |-> price]
Call(side, qty, ok) == [side |-> side, qty |-> qty, ok |-> ok]

PlaceOrder_noregister(side, qty, ok) ==
    /\ calls' = Append(calls, Call(side, qty, ok))
    /\ tick_calls' = tick_calls + 1
    /\ UNCHANGED <<PENDING_ORDER, sincePlaced>>

PlaceOrder_alwaysregisters(side, qty, ok) ==
    /\ calls' = Append(calls, Call(side, qty, ok))
    /\ tick_calls' = tick_calls + 1
    /\ PENDING_ORDER' = Some([side |-> side, qty |-> qty, price |-> last_price[1]])
    /\ sincePlaced' = 0

\* place_order and, when it returns, the registration of the pending order,
\* generator.py:647-663 and 700-716
PlaceOrder(side, qty, ok) ==
    /\ calls' = Append(calls, Call(side, qty, ok))
    /\ tick_calls' = tick_calls + 1
    /\ IF ok THEN /\ PENDING_ORDER' = Some(Order(side, qty, last_price[1]))
                  /\ sincePlaced' = 0
             ELSE UNCHANGED <<PENDING_ORDER, sincePlaced>>

BuyLogic ==
    /\ pc = "buy"
    /\ IF BuyGuard
         THEN \E c \in CashSet \cup {-1}, ok \in BOOLEAN :
                \* the cash refresh: a balance, or -1 for a get_cash_balance that raises
                LET cash1 == IF c = -1 THEN CASH ELSE c
                    shares_to_buy == compute_shares_to_buy(cash1, last_price)
                IN  /\ CASH' = cash1
                    /\ cash_fetch' = IF c = -1 THEN "raised" ELSE "ok"
                    /\ IF shares_to_buy <= 0
                         THEN ok /\ UNCHANGED <<PENDING_ORDER, sincePlaced, calls, tick_calls>>
                         ELSE PlaceOrder("BUY", shares_to_buy, ok)
                    /\ cash_at_buy' = IF shares_to_buy > 0 /\ ok THEN Some(cash1)
                                      ELSE cash_at_buy
         ELSE UNCHANGED <<CASH, PENDING_ORDER, sincePlaced, calls, tick_calls, cash_fetch,
                          cash_at_buy>>
    /\ pc' = "sell"
    /\ UNCHANGED <<position_vars, SHUTDOWN, market_open, quote, last_price, prev_close,
                   hist_called, exit_reason, rows, bought_at, seen_max, last_note,
                   trade_happened_this_run, note_cash, fills, order_age, fn_vars>>

(***************************************************************************)
(* SELL logic, generator.py:665-716.  held is now_ist() - ENTRY_DATE.      *)
(***************************************************************************)
\* generator.py:666
SellGuard == SHARES_HELD > 0 /\ PENDING_ORDER = None

HeldAtLeast_rounded(held, days) == held + DAY \div 2 >= days * DAY

\* held_days >= days, generator.py:669, 687-693
HeldAtLeast(held, days) == held >= days * DAY

\* generator.py:683-695: the exit reason, or "none"
ExitReason(current_return, peak, held) ==
    IF PctLeqH(current_return, STOP_LOSS) /\ HeldAtLeast(held, MAX_DAYS)
      THEN "stop_loss"
    ELSE IF PctGeqH(current_return, PROFIT_TARGET) /\ HeldAtLeast(held, MIN_DAYS)
      THEN "profit_target"
    ELSE IF PctGapGeqH(peak, current_return, TRAILING_DRAWDOWN) /\ HeldAtLeast(held, MAX_DAYS)
      THEN "trailing_drawdown"
    ELSE "none"

PeakUpdate_last(peak, current_return) == current_return

\* generator.py:678-681
PeakUpdate(peak, current_return) ==
    IF peak = None THEN current_return ELSE PctMax(peak[1], current_return)

SellLogic ==
    /\ pc = "sell"
    /\ LET held == IF ENTRY_DATE = None THEN 0 ELSE ENTRY_DATE[1]
           current_return == PctChange(last_price[1], BUY_PRICE)
           peak == PeakUpdate(PEAK_RETURN, current_return)
       IN  /\ IF SellGuard
                THEN /\ PEAK_RETURN' = Some(peak)
                     /\ exit_reason' = ExitReason(current_return, peak, held)
                     /\ IF exit_reason' # "none"
                          THEN \E ok \in BOOLEAN : PlaceOrder("SELL", SHARES_HELD, ok)
                          ELSE UNCHANGED <<PENDING_ORDER, sincePlaced, calls, tick_calls>>
                ELSE UNCHANGED <<PEAK_RETURN, exit_reason, PENDING_ORDER, sincePlaced, calls,
                                 tick_calls>>
           \* the returns seen while the position is open
           /\ seen_max' = IF SHARES_HELD > 0
                             THEN Some(PeakUpdate(seen_max, current_return))
                             ELSE seen_max
    /\ pc' = "sleep"
    /\ UNCHANGED <<CASH, SHARES_HELD, BUY_PRICE, ENTRY_DATE, SHUTDOWN, market_open,
                   quote, last_price, prev_close, hist_called, rows, bought_at, last_note,
                   trade_happened_this_run, obs_vars, fn_vars>>

(***************************************************************************)
(* time.sleep(LOOP_SLEEP), generator.py:494, 516, 540, 564, 718: time      *)
(* passes, and the next iteration starts with fresh locals.                *)
(***************************************************************************)
Sleep ==
    /\ pc = "sleep"
    /\ \E dt \in SleepSet, opens \in BOOLEAN :
          /\ sincePlaced' = IF PENDING_ORDER = None THEN 0
                            ELSE Older(sincePlaced, dt)
          /\ ENTRY_DATE' = IF ENTRY_DATE = None THEN None
                           ELSE Some(Min(HeldCap, ENTRY_DATE[1] + dt))
          /\ market_open' = (market_open \/ opens)
    /\ pc' = "top"
    /\ quote' = None
    /\ last_price' = None
    /\ prev_close' = None
    /\ hist_called' = FALSE
    /\ exit_reason' = "none"
    /\ tick_calls' = 0
    /\ cash_fetch' = "none"
    /\ order_age' = None
    /\ UNCHANGED <<CASH, SHARES_HELD, BUY_PRICE, PEAK_RETURN, PENDING_ORDER, SHUTDOWN,
                   log_vars, note_cash, cash_at_buy, fills, fn_vars>>

Next ==
    \/ Startup
    \/ on_shutdown
    \/ LoopTop
    \/ FetchQuote
    \/ ProcessPending
    \/ BuyLogic
    \/ SellLogic
    \/ Sleep

Spec == Init /\ [][Next]_vars

(***************************************************************************)
(* The position sizer on its own: compute_shares_to_buy and                *)
(* get_delta_for_cash applied to inputs around every band edge.            *)
(***************************************************************************)
BandEdges == UNION {{R(CASH_DELTA_BANDS[i].lo), R(CASH_DELTA_BANDS[i].hi)} :
                       i \in 1..Len(CASH_DELTA_BANDS)}
\* the edges, the amounts just past each upper edge (Rs hi + 0.5, between two
\* bands or above the table), a negative balance, and Rs 45000, Rs 123.4
SizerCash == BandEdges
             \cup {R(CASH_DELTA_BANDS[i].hi) + 5 : i \in 1..Len(CASH_DELTA_BANDS)}
             \cup {-R(5), R(45000), 1234}
SizerPrice == {None, Some(-R(1)), Some(0), Some(7), Some(R(1)), Some(R(150)), Some(1994)}
SizerArgs == [cash : SizerCash, price : SizerPrice]

FnInit ==
    /\ pc = "fn"
    /\ CASH = 0
    /\ SHARES_HELD = 0
    /\ BUY_PRICE = 0
    /\ ENTRY_DATE = None
    /\ PEAK_RETURN = None
    /\ PENDING_ORDER = None
    /\ sincePlaced = 0
    /\ SHUTDOWN = FALSE
    /\ market_open = FALSE
    /\ quote = None
    /\ last_price = None
    /\ prev_close = None
    /\ hist_called = FALSE
    /\ exit_reason = "none"
    /\ seen_max = None
    /\ trade_happened_this_run = FALSE
    /\ calls = <<>>
    /\ tick_calls = 0
    /\ rows = <<>>
    /\ bought_at = None
    /\ last_note = None
    /\ note_cash = None
    /\ cash_fetch = "none"
    /\ cash_at_buy = None
    /\ fills = <<>>
    /\ order_age = None
    /\ fn_arg \in {Some(a) : a \in SizerArgs}
    /\ fn_res = None

loop_vars == <<pc, CASH, position_vars, PENDING_ORDER, sincePlaced, SHUTDOWN, market_open,
               tick_vars, log_vars, obs_vars>>

\* the sizer applied to the input
SizeOrder ==
    /\ pc = "fn"
    /\ fn_res = None
    /\ fn_res' = Some([qty |-> compute_shares_to_buy(fn_arg[1].cash, fn_arg[1].price),
                       delta |-> get_delta_for_cash(fn_arg[1].cash)])
    /\ UNCHANGED <<fn_arg, loop_vars>>

\* the next input
NextInput ==
    /\ pc = "fn"
    /\ fn_res # None
    /\ fn_arg' \in {Some(a) : a \in SizerArgs}
    /\ fn_res' = None
    /\ UNCHANGED loop_vars

SizerNext == SizeOrder \/ NextInput

SizerSpec == FnInit /\ [][SizerNext]_vars

(***************************************************************************)
(* The SELL logic of one tick (generator.py:665-716) applied to the states *)
(* a tick can hand it: a position bought at Rs 100 or Rs 200, a last price *)
(* on either side of each threshold, a peak, and a holding time of 0, just *)
(* under MAX_DAYS days, or MAX_DAYS days.                                  *)
(***************************************************************************)
ExitBuy == {R(100), 2000}
ExitLast == {989, 990, R(100), 1003, 1039, R(104), 2080}
ExitHeld == {0, MAX_DAYS * DAY - 1, MAX_DAYS * DAY}
ExitPeakGain == {-20, 3, 50}
ExitTicks ==
    [buy : ExitBuy, last : ExitLast, held : ExitHeld,
     peak : {None} \cup {Some(n) : n \in ExitPeakGain}, selling : BOOLEAN]

ExitInit ==
    \E t \in ExitTicks :
        /\ pc = "sell"
        /\ CASH = 0
        /\ SHARES_HELD = 10
        /\ BUY_PRICE = t.buy
        /\ ENTRY_DATE = Some(t.held)
        /\ PEAK_RETURN = IF t.peak = None THEN None ELSE Some(Pct(t.peak[1], t.buy))
        /\ PENDING_ORDER = IF t.selling THEN Some(Order("SELL", 10, t.buy)) ELSE None
        /\ sincePlaced = 0
        /\ SHUTDOWN = FALSE
        /\ market_open = TRUE
        /\ quote = PlainQuote(VNum(t.last), VNum(t.last))
        /\ last_price = Some(t.last)
        /\ prev_close = Some(t.last)
        /\ hist_called = FALSE
        /\ exit_reason = "none"
        /\ seen_max = PEAK_RETURN
        /\ trade_happened_this_run = FALSE
        /\ calls = <<>>
        /\ tick_calls = 0
        /\ rows = <<>>
        /\ bought_at = Some(t.buy)
        /\ last_note = None
        /\ note_cash = None
        /\ cash_fetch = "none"
        /\ cash_at_buy = None
        /\ fills = <<>>
        /\ order_age = None
        /\ fn_arg = None
        /\ fn_res = None

\* the SELL logic of a later tick
NextExitTick ==
    /\ pc = "sleep"
    /\ \E t \in ExitTicks :
        /\ pc' = "sell"
        /\ BUY_PRICE' = t.buy
        /\ ENTRY_DATE' = Some(t.held)
        /\ PEAK_RETURN' = IF t.peak = None THEN None ELSE Some(Pct(t.peak[1], t.buy))
        /\ PENDING_ORDER' = IF t.selling THEN Some(Order("SELL", 10, t.buy)) ELSE None
        /\ quote' = PlainQuote(VNum(t.last), VNum(t.last))
        /\ last_price' = Some(t.last)
        /\ prev_close' = Some(t.last)
        /\ seen_max' = PEAK_RETURN'
        /\ bought_at' = Some(t.buy)
    /\ exit_reason' = "none"
    /\ sincePlaced' = 0
    /\ calls' = <<>>
    /\ tick_calls' = 0
    /\ UNCHANGED <<CASH, SHARES_HELD, SHUTDOWN, market_open, hist_called, rows, last_note,
                   trade_happened_this_run, obs_vars, fn_vars>>

ExitNext == SellLogic \/ NextExitTick

ExitSpec == ExitInit /\ [][ExitNext]_vars

(***************************************************************************)
(* The two price extractors on their own, applied to quote payloads whose  *)
(* fields are absent, zero, numeric, numeric strings or other strings.     *)
(***************************************************************************)
ParseQuotes ==
    {None} \cup
    {Some([last_price |-> a, last_trade_price |-> VNone, last_traded_price |-> VNone,
           ltp |-> b, offer_price |-> c, previous_close |-> d, prev_close |-> VNone,
           ohlc |-> o]) :
        a \in {VNone, VNum(0), VJunk, VNum(R(150))},
        b \in {VNone, VJunk, VStr(1994)},
        c \in {VNone, VNum(R(170))},
        d \in {VNone, VNum(0), VStr(0), VZStr, VJunk, VNum(2000)},
        o \in {NoOhlc, BadOhlc, Ohlc(VNone, VNum(2000), VNone, VNone),
                Ohlc(VNum(R(160)), VNone, VNum(2090), VNone)}}

ParseInit ==
    /\ pc = "parse"
    /\ CASH = 0
    /\ SHARES_HELD = 0
    /\ BUY_PRICE = 0
    /\ ENTRY_DATE = None
    /\ PEAK_RETURN = None
    /\ PENDING_ORDER = None
    /\ sincePlaced = 0
    /\ SHUTDOWN = FALSE
    /\ market_open = FALSE
    /\ quote = None
    /\ last_price = None
    /\ prev_close = None
    /\ hist_called = FALSE
    /\ exit_reason = "none"
    /\ seen_max = None
    /\ trade_happened_this_run = FALSE
    /\ calls = <<>>
    /\ tick_calls = 0
    /\ rows = <<>>
    /\ bought_at = None
    /\ last_note = None
    /\ note_cash = None
    /\ cash_fetch = "none"
    /\ cash_at_buy = None
    /\ fills = <<>>
    /\ order_age = None
    /\ fn_arg \in {Some(q) : q \in ParseQuotes}
    /\ fn_res = None

\* both extractors applied to the payload
ParseQuote ==
    /\ pc = "parse"
    /\ fn_res = None
    /\ fn_res' = Some([last |-> extract_last_price(fn_arg[1]),
                       prev |-> extract_previous_close(fn_arg[1])])
    /\ UNCHANGED <<fn_arg, loop_vars>>

\* the next payload
NextQuote ==
    /\ pc = "parse"
    /\ fn_res # None
    /\ fn_arg' \in {Some(q) : q \in ParseQuotes}
    /\ fn_res' = None
    /\ UNCHANGED loop_vars

ParseNext == ParseQuote \/ NextQuote

ParseSpec == ParseInit /\ [][ParseNext]_vars

(***************************************************************************)
(* Arithmetic used to state the sizing claims.                             *)
(* Cost(q, p, d) is the least whole amount not below q * p * (1 + d/10000),*)
(* so that q * p * (1 + d/10000) <= c iff Cost(q, p, d) <= c for whole c.  *)
(* It multiplies, where the sizer divides, and stays within 32 bits.       *)
(***************************************************************************)
Cost(q, p, d) ==
    ((q * p) \div 10000) * (10000 + d) + CeilDiv(((q * p) % 10000) * (10000 + d), 10000)

Sized == pc = "fn" /\ fn_res # None
ArgCash == fn_arg[1].cash
ArgPrice == fn_arg[1].price
\* band i is the first band whose inclusive [lo, hi] contains c
FirstBand(c, i) ==
    /\ R(CASH_DELTA_BANDS[i].lo) <= c /\ c <= R(CASH_DELTA_BANDS[i].hi)
    /\ \A j \in 1..(i - 1) :
          ~(R(CASH_DELTA_BANDS[j].lo) <= c /\ c <= R(CASH_DELTA_BANDS[j].hi))
Banded(c) == \E i \in 1..Len(CASH_DELTA_BANDS) : FirstBand(c, i)

\* C4: for cash >= 0 and price > 0 the sized order never over-allocates:
\* qty * price * (1 + delta) <= cash, delta = get_delta_for_cash(cash).
C4_NeverOverAllocates ==
    (Sized /\ ArgCash >= 0 /\ ArgPrice # None /\ ArgPrice[1] > 0)
        => Cost(fn_res[1].qty, ArgPrice[1], get_delta_for_cash(ArgCash)) <= ArgCash

\* a positive quantity that leaves less than the buffered price of one share
C4_Witness ==
    /\ Sized /\ ArgCash > 0 /\ ArgPrice # None /\ ArgPrice[1] > 0
    /\ fn_res[1].qty > 0
    /\ Cost(fn_res[1].qty + 1, ArgPrice[1], get_delta_for_cash(ArgCash)) > ArgCash

\* C5: the sizer returns 0 for a missing or non-positive price, and otherwise
\* max(0, floor(cash / (price * (1 + delta)))) with delta the fraction of the
\* first band whose inclusive [low, high] contains cash; Rs 45000 at Rs 150
\* selects 0.0033 and gives 299.
C5_SizerValue ==
    Sized =>
      /\ (ArgPrice = None \/ ArgPrice[1] <= 0) => fn_res[1].qty = 0
      /\ (ArgPrice # None /\ ArgPrice[1] > 0) =>
            \A i \in 1..Len(CASH_DELTA_BANDS) :
              FirstBand(ArgCash, i) =>
                /\ fn_res[1].delta = CASH_DELTA_BANDS[i].delta
                /\ fn_res[1].qty >= 0
                /\ Cost(fn_res[1].qty, ArgPrice[1], CASH_DELTA_BANDS[i].delta) <= ArgCash
                /\ Cost(fn_res[1].qty + 1, ArgPrice[1], CASH_DELTA_BANDS[i].delta) > ArgCash
      /\ (ArgCash = R(45000) /\ ArgPrice = Some(R(150))) =>
            fn_res[1].delta = 33 /\ fn_res[1].qty = 299

C5_Witness ==
    /\ Sized /\ ArgCash = R(45000) /\ ArgPrice = Some(R(150))
    /\ fn_res[1] = [qty |-> 299, delta |-> 33]

\* C6: when no band contains the cash amount the fallback fraction is
\* strictly larger than every fraction of the table, so the quantity sized
\* with it is never larger than the one any tabulated fraction would give.
C6_FallbackIsLargest ==
    (Sized /\ ArgCash >= 0 /\ ~Banded(ArgCash)) =>
        \A i \in 1..Len(CASH_DELTA_BANDS) :
          /\ fn_res[1].delta > CASH_DELTA_BANDS[i].delta
          /\ (ArgPrice # None /\ ArgPrice[1] > 0) =>
                fn_res[1].qty <= Max(0, FloorOverOnePlus(ArgCash, CASH_DELTA_BANDS[i].delta)
                                          \div ArgPrice[1])

(***************************************************************************)
(* Steps of the loop named by the claims.                                  *)
(***************************************************************************)
\* the pending-order processing step of a tick is taken
PendingStep == pc = "pending" /\ pc' = "buy"
\* ... with a pending order of this side whose age has reached 2 seconds
FillStep(side) ==
    /\ PendingStep
    /\ PENDING_ORDER # None
    /\ PENDING_ORDER[1].side = side
    /\ sincePlaced >= FILL_AGE
\* place_order is invoked
PlaceStep == calls' # calls

\* C1: a BUY is handed to place_order only with SHARES_HELD = 0 and no
\* pending order, a SELL only with SHARES_HELD > 0 and no pending order; at
\* most one order is placed per tick and a pending order is never
\* overwritten before it is resolved.
C1_OrdersOnlyWhenAllowed ==
    [][ /\ PlaceStep =>
              /\ Len(calls') = Len(calls) + 1
              /\ PENDING_ORDER = None
              /\ calls'[Len(calls')].side = "BUY" => SHARES_HELD = 0
              /\ calls'[Len(calls')].side = "SELL" => SHARES_HELD > 0
              /\ tick_calls = 0
        /\ (PENDING_ORDER # None /\ PENDING_ORDER' # None)
              => PENDING_ORDER' = PENDING_ORDER ]_vars

\* a BUY and, later, a SELL were placed and accepted
C1_Witness ==
    \E i, j \in 1..Len(calls) :
        /\ i < j
        /\ calls[i] = Call("BUY", calls[i].qty, TRUE)
        /\ calls[j] = Call("SELL", calls[i].qty, TRUE)

\* C2: a pending BUY exists only while SHARES_HELD = 0, a pending SELL
\* only while SHARES_HELD > 0.
C2_PendingMatchesPosition ==
    PENDING_ORDER # None =>
        /\ PENDING_ORDER[1].side = "BUY" => SHARES_HELD = 0
        /\ PENDING_ORDER[1].side = "SELL" => SHARES_HELD > 0

\* a SELL is pending for a position that a BUY fill opened
C2_Witness ==
    /\ PENDING_ORDER # None
    /\ PENDING_ORDER[1].side = "SELL"
    /\ SHARES_HELD = PENDING_ORDER[1].qty
    /\ bought_at # None

\* C3: from the end of startup on, SHARES_HELD = 0 implies BUY_PRICE = 0
\* and ENTRY_DATE unset.
C3_EmptyPositionIsClean ==
    (pc \notin {"startup", "fn"} /\ SHARES_HELD = 0)
        => (BUY_PRICE = 0 /\ ENTRY_DATE = None)

\* C7: at the SELL fill that closes a position opened by a BUY fill, the
\* recorded pnl amount is quantity * (sell reference price - buy price),
\* with the pending SELL's quantity and the BUY fill's reference price.
C7_PnlOfRoundTrip ==
    [][ (FillStep("SELL") /\ bought_at # None) =>
          /\ Len(rows') = Len(rows) + 1
          /\ rows'[Len(rows')].pnl_amt =
                PENDING_ORDER[1].qty * (PENDING_ORDER[1].price - bought_at[1]) ]_vars

\* a round trip bought at Rs 199.4 was recorded with a profit
C7_Witness ==
    \E i \in 1..Len(rows) :
        /\ rows[i].buy_price = 1994
        /\ rows[i].pnl_amt = rows[i].shares * (rows[i].sell_price - 1994)
        /\ rows[i].pnl_amt > 0

\* C8: when a pending BUY of quantity q and reference price p is deemed
\* filled, the step leaves SHARES_HELD = q, BUY_PRICE = p, ENTRY_DATE = the
\* fill time, PEAK_RETURN unset, CASH = max(0, CASH before - q*p) and no
\* pending order.
C8_BuyFillEffect ==
    [][ FillStep("BUY") =>
          /\ SHARES_HELD' = PENDING_ORDER[1].qty
          /\ BUY_PRICE' = PENDING_ORDER[1].price
          /\ ENTRY_DATE' = Some(0)
          /\ PEAK_RETURN' = None
          /\ CASH' = Max(0, CASH - PENDING_ORDER[1].qty * PENDING_ORDER[1].price)
          /\ PENDING_ORDER' = None ]_vars

\* 299 shares at Rs 150 out of Rs 45000, right after the fill
C8_Witness ==
    /\ pc = "buy"
    /\ SHARES_HELD = 299
    /\ BUY_PRICE = R(150)
    /\ ENTRY_DATE = Some(0)
    /\ PEAK_RETURN = None
    /\ CASH = R(45000) - 299 * R(150)
    /\ PENDING_ORDER = None

\* C9: when a pending SELL of quantity q and reference price p is deemed
\* filled, CASH grows by q*p, one trade row is emitted, the position is
\* reset and the pending order cleared; no other step emits a trade row.
C9_SellFillEffect ==
    [][ /\ FillStep("SELL") =>
              /\ CASH' = CASH + PENDING_ORDER[1].qty * PENDING_ORDER[1].price
              /\ Len(rows') = Len(rows) + 1
              /\ SubSeq(rows', 1, Len(rows)) = rows
              /\ SHARES_HELD' = 0
              /\ BUY_PRICE' = 0
              /\ ENTRY_DATE' = None
              /\ PEAK_RETURN' = None
              /\ PENDING_ORDER' = None
        /\ rows' # rows => FillStep("SELL") ]_vars

\* a SELL fill has just closed the position
C9_Witness ==
    /\ pc = "buy"
    /\ Len(rows) = 1
    /\ CASH = rows[1].final_capital
    /\ SHARES_HELD = 0
    /\ PENDING_ORDER = None
    /\ last_note = Some("SUCCESS")

\* C10: a pending order is never treated as filled at an age below 2
\* seconds, it is cleared by the first processing step at which its age
\* has reached 2 seconds, and if ticks with a valid quote and previous
\* close keep occurring every pending order is eventually resolved.
C10_FillThreshold ==
    /\ [][ (PendingStep /\ PENDING_ORDER # None) =>
              IF sincePlaced < FILL_AGE
              THEN UNCHANGED <<PENDING_ORDER, CASH, position_vars, rows>>
              ELSE PENDING_ORDER' = None ]_vars
    /\ ([]<><<PendingStep>>_vars) => [](PENDING_ORDER # None => <>(PENDING_ORDER = None))

\* an order younger than 2 seconds was left pending by the processing step
C10_Witness ==
    /\ pc = "buy"
    /\ PENDING_ORDER # None
    /\ sincePlaced > 0
    /\ sincePlaced < FILL_AGE

(***************************************************************************)
(* The steps of a tick after the prices are resolved.                      *)
(***************************************************************************)
FetchStep == pc = "quote" /\ pc' # "quote"
BuyStep == pc = "buy" /\ pc' = "sell"
SellStep == pc = "sell" /\ pc' = "sleep"
LastCall == calls'[Len(calls')]

\* C11: a pending order that is not marked filled and whose age exceeds the
\* 120-second ceiling when it is processed is treated as expired:
\* PENDING_ORDER is cleared while SHARES_HELD, BUY_PRICE, ENTRY_DATE,
\* PEAK_RETURN and CASH are unchanged and no trade row is emitted.
\* (filled is age >= 2 seconds, so no processing step meets the condition.)
C11_ExpiredOrderIsDiscarded ==
    [][ (PendingStep /\ PENDING_ORDER # None
           /\ ~Filled(sincePlaced) /\ sincePlaced > EXPIRE_AGE) =>
          /\ PENDING_ORDER' = None
          /\ UNCHANGED <<position_vars, CASH, rows>> ]_vars

\* price_change_pct <= BUY_THRESHOLD for the tick's prices, without division
PriceDropped ==
    LET l == last_price[1]
        p == prev_close[1]
    IN  IF p > 0 THEN (l - p) * 10000 <= BUY_THRESHOLD * p
                 ELSE (l - p) * 10000 >= BUY_THRESHOLD * p

\* C12: in the BUY step of a tick, place_order is called for a BUY exactly
\* when the position is empty, no order is pending, price_change_pct <=
\* BUY_THRESHOLD and the quantity sized against the cash left by the refresh
\* is positive; the quantity is the sized one, and a pending BUY with that
\* quantity and the tick's last_price is registered exactly when the call
\* returns.  Without a call the pending order is as before, and the
\* position is never changed by the step.
C12_EntryRule ==
    [][ BuyStep =>
          LET l == last_price[1]
              d == get_delta_for_cash(CASH')
              wanted == /\ SHARES_HELD = 0
                        /\ PENDING_ORDER = None
                        /\ PriceDropped
                        /\ Cost(1, l, d) <= CASH'
          IN  /\ PlaceStep <=> wanted
              /\ PlaceStep =>
                    /\ Len(calls') = Len(calls) + 1
                    /\ LastCall.side = "BUY"
                    /\ LastCall.qty > 0
                    /\ Cost(LastCall.qty, l, d) <= CASH'
                    /\ Cost(LastCall.qty + 1, l, d) > CASH'
                    /\ LastCall.ok => PENDING_ORDER' = Some(Order("BUY", LastCall.qty, l))
                    /\ ~LastCall.ok => PENDING_ORDER' = None
              /\ ~PlaceStep => PENDING_ORDER' = PENDING_ORDER
              /\ UNCHANGED position_vars ]_vars

\* previous close Rs 200, last price Rs 199.4: a BUY was placed and is pending
C12_Witness ==
    /\ pc = "sell"
    /\ prev_close = Some(2000)
    /\ last_price = Some(1994)
    /\ PENDING_ORDER # None
    /\ PENDING_ORDER[1] = Order("BUY", calls[Len(calls)].qty, 1994)
    /\ sincePlaced = 0
    /\ tick_calls = 1

\* C13: with a position open and no order pending the exit decision is the
\* first rule that holds of: current_return <= STOP_LOSS and held_days >=
\* MAX_DAYS (stop_loss); current_return >= PROFIT_TARGET and held_days >=
\* MIN_DAYS (profit_target); |peak_return - current_return| >=
\* TRAILING_DRAWDOWN and held_days >= MAX_DAYS (trailing_drawdown).  A SELL
\* is placed exactly when one holds, and none of stop_loss and
\* trailing_drawdown before MAX_DAYS full days.  Buy 100 / last 104 / 0 days
\* gives profit_target, buy 100 / last 98.9 / 5 days gives stop_loss.
C13_ExitRules ==
    [][ SellStep =>
          IF SHARES_HELD > 0 /\ PENDING_ORDER = None
          THEN LET b == BUY_PRICE
                   gain == last_price[1] - b
                   held == ENTRY_DATE[1]
                   peak == PEAK_RETURN'[1]
                   stop == gain * 10000 <= STOP_LOSS * b /\ held >= MAX_DAYS * DAY
                   profit == gain * 10000 >= PROFIT_TARGET * b /\ held >= MIN_DAYS * DAY
                   trail == /\ Abs(peak.n - gain) * 10000 >= TRAILING_DRAWDOWN * b
                            /\ held >= MAX_DAYS * DAY
                   rule == IF stop THEN "stop_loss"
                           ELSE IF profit THEN "profit_target"
                           ELSE IF trail THEN "trailing_drawdown"
                           ELSE "none"
               IN  /\ peak.d = b
                   /\ exit_reason' = rule
                   /\ PlaceStep <=> rule # "none"
                   /\ PlaceStep => LastCall.side = "SELL" /\ LastCall.qty = SHARES_HELD
                   /\ rule = "none" =>
                         UNCHANGED <<PENDING_ORDER, SHARES_HELD, BUY_PRICE, ENTRY_DATE, CASH>>
                   /\ held < MAX_DAYS * DAY =>
                         exit_reason' \notin {"stop_loss", "trailing_drawdown"}
                   /\ (b = R(100) /\ last_price[1] = R(104) /\ held = 0) =>
                         exit_reason' = "profit_target"
                   /\ (b = R(100) /\ last_price[1] = 989 /\ held = MAX_DAYS * DAY) =>
                         exit_reason' = "stop_loss"
          ELSE ~PlaceStep /\ exit_reason' = "none" ]_vars

\* a stop_loss SELL at 5 days that the trailing rule would also have asked for
C13_Witness ==
    /\ pc = "sleep"
    /\ exit_reason = "stop_loss"
    /\ ENTRY_DATE = Some(MAX_DAYS * DAY)
    /\ BUY_PRICE = R(100)
    /\ last_price = Some(989)
    /\ PEAK_RETURN = Some(Pct(50, R(100)))
    /\ PENDING_ORDER = Some(Order("SELL", SHARES_HELD, 989))

\* C14: whenever the exit rules are evaluated PEAK_RETURN has been set, in
\* the same step, to the largest current_return of the ticks seen since
\* the entry, so it is not below the tick's current_return; and it never
\* decreases while the position stays open.
C14_PeakIsRunningMax ==
    [][ /\ (SellStep /\ SHARES_HELD > 0 /\ PENDING_ORDER = None) =>
              /\ PEAK_RETURN' # None
              /\ PEAK_RETURN' = seen_max'
              /\ PctLeq(PctChange(last_price[1], BUY_PRICE), PEAK_RETURN'[1])
        /\ (SHARES_HELD > 0 /\ SHARES_HELD' > 0 /\ PEAK_RETURN # None) =>
              /\ PEAK_RETURN' # None
              /\ PctLeq(PEAK_RETURN[1], PEAK_RETURN'[1]) ]_vars

\* bought at Rs 199.4, seen at Rs 200.0 and now back at Rs 199.4: the peak
\* stays at the return of Rs 200.0
C14_Witness ==
    /\ pc = "sleep"
    /\ SHARES_HELD > 0
    /\ BUY_PRICE = 1994
    /\ last_price = Some(1994)
    /\ PEAK_RETURN = Some(Pct(6, 1994))
    /\ exit_reason = "none"

(***************************************************************************)
(* Payload fields as the claims read them.                                 *)
(***************************************************************************)
\* the field holds zero: 0, 0.0, "0" or "0.0"
ZeroField(v) == v \in {VNum(0), VStr(0), VZStr}
\* the field holds a number, or a string that float() accepts
Numeric(v) == v[1] \in {"num", "str", "zstr"}
NumberOf(v) == IF v[1] = "zstr" THEN 0 ELSE v[2]
\* the field holds a non-zero number
UsableField(v) == v[1] \in {"num", "str"} /\ v[2] # 0
\* the candidate fields of the last price, in the order they are tried
LastCandidates(q) ==
    <<q.last_price, q.last_trade_price, q.last_traded_price, q.ltp>>
    \o (IF q.ohlc[1] = "dict" THEN <<q.ohlc[2].last, q.ohlc[2].close>> ELSE <<>>)
    \o <<q.offer_price>>
\* no candidate field holds a positive number
NoPositiveLast(qt) ==
    \/ qt = None
    \/ \A i \in 1..Len(LastCandidates(qt[1])) :
          ~(Numeric(LastCandidates(qt[1])[i]) /\ NumberOf(LastCandidates(qt[1])[i]) > 0)
\* the previous close comes from the first explicit previous-close field
\* that is present
FromExplicitField(q) ==
    \/ UsableField(q.previous_close)
    \/ q.previous_close = VNone /\ UsableField(q.prev_close)
    \/ /\ q.previous_close = VNone /\ q.prev_close = VNone /\ q.ohlc[1] = "dict"
       /\ \/ UsableField(q.ohlc[2].previous_close)
          \/ q.ohlc[2].previous_close = VNone /\ UsableField(q.ohlc[2].prev_close)
\* the tick has passed the price resolution
Resolved == pc \in {"pending", "buy", "sell"}

\* C15: a previous close of zero is treated as absent: once a tick has
\* resolved its prices (calculate_price_change_pct is called right then, and
\* the entry decision follows) prev_close is not zero, and when the quote
\* carried a zero previous close the value came from the daily bars.
C15_ZeroCloseIsAbsent ==
    /\ Resolved => prev_close # None /\ prev_close[1] # 0
    /\ prev_close # None => prev_close[1] # 0
    /\ tick_calls > 0 => prev_close # None
    /\ (Resolved /\ quote # None /\ ZeroField(quote[1].previous_close)
          /\ quote[1].prev_close = VNone /\ quote[1].ohlc = NoOhlc) => hist_called

\* the quote said "0.0" and the tick goes on with the close of the bars
C15_Witness ==
    /\ pc = "pending"
    /\ quote # None
    /\ quote[1].previous_close = VZStr
    /\ hist_called
    /\ prev_close = Some(2000)

\* C16: on a tick whose previous close comes from an explicit
\* previous-close field of the quote, get_historical_candle_data is not
\* called.
C16_NoFallbackForExplicitClose ==
    (quote # None /\ FromExplicitField(quote[1])) => ~hist_called

\* the quote carried previous_close = 200.0 and the bars were not asked
C16_Witness ==
    /\ pc = "pending"
    /\ quote # None
    /\ quote[1].previous_close = VNum(2000)
    /\ prev_close = Some(2000)
    /\ ~hist_called

\* C17: when the quote carries no usable previous close and the daily bars
\* do not give a positive number the tick is skipped: no decision, no order,
\* and CASH, the position and PENDING_ORDER unchanged.
C17_FallbackNeedsPositiveClose ==
    [][ (FetchStep /\ hist_called' /\ ~(prev_close' # None /\ prev_close'[1] > 0)) =>
          /\ pc' = "sleep"
          /\ prev_close' = None
          /\ UNCHANGED <<CASH, position_vars, PENDING_ORDER, calls>> ]_vars

\* C18: when no candidate field of the quote holds a positive last price, or
\* there is no quote, the tick is skipped before pending-order processing:
\* it goes straight to the sleep, places no order and leaves CASH, the
\* position and PENDING_ORDER as they were.
C18_InvalidQuoteSkipsTick ==
    [][ /\ (FetchStep /\ NoPositiveLast(quote')) =>
              /\ pc' = "sleep"
              /\ last_price' = None
              /\ UNCHANGED <<CASH, position_vars, PENDING_ORDER, sincePlaced, calls, rows>>
        /\ pc = "sleep" =>
              UNCHANGED <<CASH, SHARES_HELD, BUY_PRICE, PEAK_RETURN, PENDING_ORDER, calls,
                          rows>> ]_vars

\* a pending order is still there after a tick whose last price was a
\* non-numeric string
C18_Witness ==
    /\ pc = "sleep"
    /\ quote # None
    /\ quote[1].last_price = VJunk
    /\ last_price = None
    /\ PENDING_ORDER # None
    /\ sincePlaced > 0

\* the value of the first numeric-coercible element, if any
RECURSIVE FirstNumeric(_)
FirstNumeric(vs) ==
    IF vs = <<>> THEN None
    ELSE IF Numeric(Head(vs)) THEN Some(NumberOf(Head(vs)))
    ELSE FirstNumeric(Tail(vs))

Parsed == pc = "parse" /\ fn_res # None

\* C19: extract_last_price returns the value of the first of last_price,
\* last_trade_price, last_traded_price, ltp, ohlc.last, ohlc.close,
\* offer_price that is present, non-null and numeric-coercible; an earlier
\* non-numeric field does not keep a later numeric one from being used.
C19_FirstNumericFieldWins ==
    (Parsed /\ fn_arg[1] # None /\ fn_arg[1][1].ohlc # BadOhlc
       /\ FirstNumeric(LastCandidates(fn_arg[1][1])) # None) =>
        fn_res[1].last = Val(FirstNumeric(LastCandidates(fn_arg[1][1]))[1])

\* C20 as stated: when place_order raises no pending order is created and
\* the position (SHARES_HELD, BUY_PRICE, ENTRY_DATE, PEAK_RETURN) and CASH
\* are as at the start of the tick's strategy evaluation.
C20_FailedPlacementLeavesState ==
    [][ (PlaceStep /\ ~LastCall.ok) =>
          /\ PENDING_ORDER' = None
          /\ UNCHANGED <<position_vars, CASH>> ]_vars

\* C20, amended: when place_order raises no pending order is created and
\* SHARES_HELD, BUY_PRICE and ENTRY_DATE are unchanged; for a BUY,
\* PEAK_RETURN is unchanged and CASH is the balance the order was sized
\* against; for a SELL, CASH is unchanged and PEAK_RETURN is the peak the
\* update before the exit rules left.
C20_FailedPlacementAmended ==
    [][ (PlaceStep /\ ~LastCall.ok) =>
          /\ PENDING_ORDER = None
          /\ PENDING_ORDER' = None
          /\ UNCHANGED <<SHARES_HELD, BUY_PRICE, ENTRY_DATE, rows>>
          /\ LastCall.side = "BUY" =>
                /\ UNCHANGED PEAK_RETURN
                /\ Cost(LastCall.qty, last_price[1], get_delta_for_cash(CASH')) <= CASH'
                /\ Cost(LastCall.qty + 1, last_price[1], get_delta_for_cash(CASH')) > CASH'
          /\ LastCall.side = "SELL" =>
                /\ CASH' = CASH
                /\ PEAK_RETURN' # None
                /\ PctLeq(PctChange(last_price[1], BUY_PRICE), PEAK_RETURN'[1])
                /\ PEAK_RETURN # None => PctLeq(PEAK_RETURN[1], PEAK_RETURN'[1]) ]_vars

\* a SELL that place_order refused: the shares are still held, nothing is
\* pending, and the peak is set
C20_Witness ==
    /\ pc = "sleep"
    /\ tick_calls = 1
    /\ calls[Len(calls)] = Call("SELL", SHARES_HELD, FALSE)
    /\ PENDING_ORDER = None
    /\ PEAK_RETURN # None

(***************************************************************************)
(* Failures inside a tick, shutdown and the end of the run.                *)
(***************************************************************************)
\* C21: when get_cash_balance raises, at startup or at the refresh before a
\* BUY, the cash used for sizing is zero, and no BUY is handed to
\* place_order on a tick whose refresh raised.
C21_FailedCashFetchMeansNoBuy ==
    [][ /\ (pc = "startup" /\ cash_fetch' = "raised") => CASH' = 0
        /\ (BuyStep /\ cash_fetch' = "raised") => (CASH' = 0 /\ ~PlaceStep) ]_vars

\* C22: no failure inside a tick ends run_live_loop by an exception: a tick
\* whose quote or previous close cannot be used goes to the sleep before the
\* next tick, and a tick whose cash refresh or place_order raises goes on.
C22_TickFailuresAreLocal ==
    [][ /\ pc' # "crashed"
        /\ (FetchStep /\ pc' # "pending") => pc' = "sleep"
        /\ (BuyStep /\ cash_fetch' = "raised") => pc' = "sell"
        /\ (PlaceStep /\ ~LastCall.ok) => pc' \in {"sell", "sleep"} ]_vars

\* C23: once SHUTDOWN is set, the next loop iteration, whatever the state
\* and the time of day, leaves the loop (so run_live_loop ends) instead of
\* sleeping, fetching a quote, processing a pending order or placing one.
C23_ShutdownEndsLoopAtTickBoundary ==
    [][ (pc = "top" /\ SHUTDOWN) => pc' = "ended" ]_vars

\* pnl of the SELL being booked: proceeds minus the cost of the shares
SellPnl == SHARES_HELD * PENDING_ORDER[1].price - SHARES_HELD * BUY_PRICE
\* the last send_telegram carried this tag and the present CASH
Notified(tag) == last_note = Some(tag) /\ note_cash = Some(CASH)

\* C24 as stated: whenever the run has ended a notification with the final
\* cash was emitted for it, tagged ERROR after an unhandled exception and
\* DONE after a normal end; at a SELL fill the tag is SUCCESS, LOSS or
\* BREAKEVEN by the sign of pnl.
C24_EveryEndIsNotified ==
    /\ [](pc = "crashed" => Notified("ERROR"))
    /\ [](pc = "ended" => Notified("DONE"))
    /\ [][ FillStep("SELL") =>
              /\ note_cash' = Some(CASH')
              /\ SellPnl > 0 => last_note' = Some("SUCCESS")
              /\ SellPnl < 0 => last_note' = Some("LOSS")
              /\ SellPnl = 0 => last_note' = Some("BREAKEVEN") ]_vars

\* C24, amended: after an unhandled exception a notification with the final
\* cash and the tag ERROR was emitted; after a normal end a notification
\* with the final cash and the tag DONE was emitted if a SELL fill occurred
\* during the run, and none was emitted for the end otherwise; at a SELL
\* fill the tag is SUCCESS, LOSS or BREAKEVEN by the sign of pnl.
C24_EndIsNotifiedAfterATrade ==
    /\ [](pc = "crashed" => Notified("ERROR"))
    /\ [](pc = "ended" => IF rows # <<>> THEN Notified("DONE") ELSE last_note = None)
    /\ [][ FillStep("SELL") =>
              /\ note_cash' = Some(CASH')
              /\ SellPnl > 0 => last_note' = Some("SUCCESS")
              /\ SellPnl < 0 => last_note' = Some("LOSS")
              /\ SellPnl = 0 => last_note' = Some("BREAKEVEN") ]_vars

\* a run that closed a trade has ended normally and DONE was sent with the
\* final cash
C24_Witness ==
    /\ pc = "ended"
    /\ rows # <<>>
    /\ Notified("DONE")
    /\ CASH = rows[Len(rows)].final_capital

(***************************************************************************)
(* Ownership of the position fields, expiry, cash over a round trip and    *)
(* the order of the placements.                                            *)
(***************************************************************************)
\* ENTRY_DATE is the same timestamp after the step: unset as before, or set
\* as before, the time elapsed since it growing only across the sleep
EntryDateKept ==
    IF pc = "sleep"
    THEN /\ (ENTRY_DATE = None) = (ENTRY_DATE' = None)
         /\ ENTRY_DATE # None => ENTRY_DATE'[1] >= ENTRY_DATE[1]
    ELSE ENTRY_DATE' = ENTRY_DATE

\* C25: after startup SHARES_HELD, BUY_PRICE and ENTRY_DATE change only in
\* the step that processes a pending order deemed filled: a BUY fill
\* creates the position, a SELL fill resets it, and every other step (price
\* resolution, entry and exit evaluation, placement that succeeds or fails,
\* skipped tick, sleep) leaves the three fields as they are.
C25_OnlyFillsChangePosition ==
    [][ pc # "startup" =>
          /\ (~FillStep("BUY") /\ ~FillStep("SELL")) =>
                (SHARES_HELD' = SHARES_HELD /\ BUY_PRICE' = BUY_PRICE /\ EntryDateKept)
          /\ FillStep("BUY") =>
                (SHARES_HELD = 0 /\ SHARES_HELD' > 0 /\ ENTRY_DATE' = Some(0))
          /\ FillStep("SELL") =>
                (SHARES_HELD > 0 /\ SHARES_HELD' = 0 /\ BUY_PRICE' = 0 /\ ENTRY_DATE' = None) ]_vars

\* a SELL was placed in this tick, after the price resolution and both
\* evaluations, and the position is still the one that was held
C25_Witness ==
    /\ pc = "sleep"
    /\ tick_calls = 1
    /\ PENDING_ORDER # None
    /\ PENDING_ORDER[1].side = "SELL"
    /\ SHARES_HELD = PENDING_ORDER[1].qty
    /\ BUY_PRICE > 0
    /\ ENTRY_DATE # None
    /\ fills # <<>>

\* the processing step books the pending order as a fill of its side
BookedAsFill ==
    /\ PENDING_ORDER' = None
    /\ fills' = Append(fills, Fill(PENDING_ORDER[1]))
    /\ IF PENDING_ORDER[1].side = "BUY"
         THEN SHARES_HELD = 0 /\ SHARES_HELD' = PENDING_ORDER[1].qty
         ELSE SHARES_HELD > 0 /\ SHARES_HELD' = 0 /\ Len(rows') = Len(rows) + 1

\* C26: the expiry outcome is unreachable: a pending order whose age exceeds
\* 120 seconds when it is processed is booked as a fill, and every
\* processing step that clears a pending order books it as a fill, so no
\* order is discarded as expired.
C26_ExpiryIsUnreachable ==
    [][ (PendingStep /\ PENDING_ORDER # None) =>
          /\ sincePlaced > EXPIRE_AGE => BookedAsFill
          /\ PENDING_ORDER' = None => BookedAsFill ]_vars

\* this tick processed an order older than 120 seconds, and it is booked as
\* the last fill
C26_Witness ==
    /\ pc = "buy"
    /\ order_age # None
    /\ order_age[1] > EXPIRE_AGE
    /\ PENDING_ORDER = None
    /\ fills # <<>>
    /\ fills[Len(fills)].after = Len(calls)
    /\ SHARES_HELD = IF fills[Len(fills)].side = "BUY" THEN fills[Len(fills)].qty ELSE 0

\* a pending order is processed and deemed filled
AnyFillStep == FillStep("BUY") \/ FillStep("SELL")

\* C27: when a BUY placed by the loop fills, qty * reference price <= CASH,
\* so the debit is exact and the zero floor is not active; CASH is not
\* modified between the placement of an order and its fill; and when the
\* SELL of a round trip fills, CASH is the cash the BUY was sized against
\* plus the pnl amount recorded in the trade row.
C27_CashOverRoundTrip ==
    [][ /\ FillStep("BUY") =>
              /\ PENDING_ORDER[1].qty * PENDING_ORDER[1].price <= CASH
              /\ CASH' = CASH - PENDING_ORDER[1].qty * PENDING_ORDER[1].price
              /\ cash_at_buy = Some(CASH)
        /\ (PENDING_ORDER # None /\ ~AnyFillStep) => CASH' = CASH
        /\ (FillStep("SELL") /\ cash_at_buy # None) =>
              CASH' = cash_at_buy[1] + rows'[Len(rows')].pnl_amt ]_vars

\* the SELL of a position the loop bought has just been booked, with a pnl
\* other than zero
C27_Witness ==
    /\ pc = "buy"
    /\ order_age # None
    /\ PENDING_ORDER = None
    /\ Len(fills) >= 2
    /\ fills[Len(fills) - 1].side = "BUY"
    /\ fills[Len(fills)].side = "SELL"
    /\ SHARES_HELD = 0
    /\ rows # <<>>
    /\ rows[Len(rows)].pnl_amt # 0
    /\ CASH = rows[Len(rows)].final_capital

\* the placements place_order accepted, in order
Placed == {i \in 1..Len(calls) : calls[i].ok}
\* j is the first accepted placement after i
NextPlaced(i, j) ==
    /\ i \in Placed /\ j \in Placed /\ i < j
    /\ \A k \in Placed : ~(i < k /\ k < j)
Opposite(side) == IF side = "BUY" THEN "SELL" ELSE "BUY"
\* an order of this side was booked as filled after placement i and before
\* placement j
FilledBetween(side, i, j) ==
    \E n \in 1..Len(fills) :
        fills[n].side = side /\ i <= fills[n].after /\ fills[n].after < j

\* C28: the sides of the accepted placements alternate, two accepted
\* placements of the same side have a fill of the opposite side between
\* them, and a SELL is placed for the whole of SHARES_HELD, which is still
\* SHARES_HELD when the SELL fills.
C28_PlacementsAlternate ==
    /\ [](\A i, j \in Placed :
            /\ NextPlaced(i, j) => calls[j].side = Opposite(calls[i].side)
            /\ (i < j /\ calls[i].side = calls[j].side) =>
                  FilledBetween(Opposite(calls[i].side), i, j))
    /\ [][ /\ (PlaceStep /\ LastCall.side = "SELL") =>
                (SHARES_HELD > 0 /\ LastCall.qty = SHARES_HELD)
          /\ FillStep("SELL") => PENDING_ORDER[1].qty = SHARES_HELD ]_vars

\* three accepted placements BUY, SELL, BUY, the first two booked as filled
C28_Witness ==
    /\ Len(calls) = 3
    /\ Placed = {1, 2, 3}
    /\ calls[1].side = "BUY"
    /\ calls[2].side = "SELL"
    /\ calls[2].qty = calls[1].qty
    /\ calls[3].side = "BUY"
    /\ Len(fills) = 2
    /\ FilledBetween("SELL", 1, 3)

====
